---- MODULE Spec2Model ----
(***************************************************************************)
(* Model of op-bindings/bindgen: the local pipeline (genLocalBindings,     *)
(* local-contracts.go) and the remote pipeline (genEtherscanBindings).     *)
(* Strings that the code inspects (contract names, paths, the source-maps  *)
(* list) are sequences of one-character strings; strings that the code     *)
(* only compares with literals or passes through are TLA+ strings.         *)
(***************************************************************************)
EXTENDS Integers, Sequences, FiniteSets, TLC

(* ------------------------------ bounds --------------------------------- *)
MaxContracts == 3
MaxRetriesBound == 2

(* ------------------------- string primitives --------------------------- *)
Digits == {"0", "1", "2", "3", "4", "5", "6", "7", "8", "9"}

UpperCs == <<"A", "B", "C", "D", "E", "F", "G", "H", "I", "J", "K", "L", "M",
             "N", "O", "P", "Q", "R", "S", "T", "U", "V", "W", "X", "Y", "Z">>

LowerCs == <<"a", "b", "c", "d", "e", "f", "g", "h", "i", "j", "k", "l", "m",
             "n", "o", "p", "q", "r", "s", "t", "u", "v", "w", "x", "y", "z">>

\* byte order of the characters the model uses: '.' < '/' < digits < upper < lower
CharOrd(c) ==
    IF c = "," THEN 44
    ELSE IF c = "." THEN 46
    ELSE IF c = "/" THEN 47
    ELSE IF c = "_" THEN 95
    ELSE IF c \in Digits THEN 48 + (CHOOSE d \in 0..9 : <<"0", "1", "2", "3", "4", "5", "6", "7", "8", "9">>[d + 1] = c)
    ELSE IF \E k \in 1..26 : UpperCs[k] = c THEN 64 + (CHOOSE k \in 1..26 : UpperCs[k] = c)
    ELSE 96 + (CHOOSE k \in 1..26 : LowerCs[k] = c)

ToLowerChar(c) ==
    IF \E k \in 1..26 : UpperCs[k] = c
    THEN LowerCs[CHOOSE k \in 1..26 : UpperCs[k] = c]
    ELSE c

\* strings.ToLower
ToLower(s) == [k \in 1..Len(s) |-> ToLowerChar(s[k])]

\* strings.HasSuffix
HasSuffix(s, suf) ==
    /\ Len(s) >= Len(suf)
    /\ SubSeq(s, Len(s) - Len(suf) + 1, Len(s)) = suf

\* strings.TrimSuffix
TrimSuffix(s, suf) ==
    IF HasSuffix(s, suf) THEN SubSeq(s, 1, Len(s) - Len(suf)) ELSE s

RECURSIVE SplitFrom(_, _, _, _)
SplitFrom(s, sep, k, cur) ==
    IF k > Len(s) THEN <<cur>>
    ELSE IF s[k] = sep THEN <<cur>> \o SplitFrom(s, sep, k + 1, <<>>)
    ELSE SplitFrom(s, sep, k + 1, Append(cur, s[k]))

\* strings.Split(s, sep) for a one-character separator: "" gives [""]
Split(s, sep) == SplitFrom(s, sep, 1, <<>>)

\* filepath.Base of a clean, non-empty path
Base(p) == LET parts == Split(p, "/") IN parts[Len(parts)]

\* number of digits of s starting at position k
RECURSIVE DigitRun(_, _)
DigitRun(s, k) ==
    IF k <= Len(s) /\ s[k] \in Digits THEN 1 + DigitRun(s, k + 1) ELSE 0

\* length of the match of one `\.\d+` group at position k, 0 when none
DotDigitsLen(s, k) ==
    IF k <= Len(s) /\ s[k] = "." /\ DigitRun(s, k + 1) > 0
    THEN 1 + DigitRun(s, k + 1)
    ELSE 0

\* length of the match of `\.\d+\.\d+\.\d+` at position k, 0 when none
VersionMatchLen(s, k) ==
    LET a == DotDigitsLen(s, k)
        b == IF a > 0 THEN DotDigitsLen(s, k + a) ELSE 0
        c == IF b > 0 THEN DotDigitsLen(s, k + a + b) ELSE 0
    IN IF c > 0 THEN a + b + c ELSE 0

RECURSIVE RemoveVersionFrom(_, _)
RemoveVersionFrom(s, k) ==
    IF k > Len(s) THEN <<>>
    ELSE LET m == VersionMatchLen(s, k)
         IN IF m > 0 THEN RemoveVersionFrom(s, k + m)
            ELSE <<s[k]>> \o RemoveVersionFrom(s, k + 1)

\* re.ReplaceAllString(name, "") with re = `\.\d+\.\d+\.\d+`
RemoveVersion(s) == RemoveVersionFrom(s, 1)

JsonExt == <<".", "j", "s", "o", "n">>
SolExt == <<".", "s", "o", "l">>

\* the key getContractArtifactPaths derives from a path
SanitizedName(p) == RemoveVersion(TrimSuffix(Base(p), JsonExt))

(* --------------------------- the input universe ------------------------ *)
NameA == <<"A">>
NameLowerA == <<"a">>
NameB == <<"B">>
ContractNames == {NameA, NameLowerA, NameB}
NameL1Bridge == <<"L", "1", "B", "r", "i", "d", "g", "e">>

ArtifactsRoot == <<"o">>
Version == <<".", "0", ".", "8", ".", "1">>

\* path.Join(forgeArtifactsPath, dir, file)
Join3(root, dir, file) == root \o <<"/">> \o dir \o <<"/">> \o file

StandardPath(name) == Join3(ArtifactsRoot, name \o SolExt, name \o JsonExt)

FileA == StandardPath(NameA)
FileAVersioned == Join3(ArtifactsRoot, NameA \o SolExt, NameA \o Version \o JsonExt)
FileAOther == Join3(ArtifactsRoot, NameB \o SolExt, NameA \o JsonExt)
FileLowerA == StandardPath(NameLowerA)
FileBIndexed == Join3(ArtifactsRoot, <<"C">> \o SolExt, NameB \o JsonExt)
FileNotes == Join3(ArtifactsRoot, <<"C">> \o SolExt, <<"n", ".", "t", "x", "t">>)
FileUniverse == {FileA, FileAVersioned, FileAOther, FileLowerA, FileBIndexed, FileNotes}

NoPath == <<>>

\* what a file of the artifact directory holds
\* ("unencodable": an artifact whose storage layout json.Marshal refuses)
FileContents == {"absent", "malformed", "artifact", "unencodable"}

SourceMapOf(p) ==
    IF p = FileA THEN "1:2:A"
    ELSE IF p = FileAVersioned THEN "1:2:Av"
    ELSE IF p = FileLowerA THEN "1:2:a"
    ELSE IF p = FileBIndexed THEN "1:2:B"
    ELSE ""

DeployedBinOf(p) ==
    IF p = FileA THEN "0xA"
    ELSE IF p = FileAVersioned THEN "0xAv"
    ELSE IF p = FileAOther THEN "0xAo"
    ELSE IF p = FileLowerA THEN "0xa"
    ELSE IF p = FileBIndexed THEN "0xB"
    ELSE "0x"

\* the foundry.Artifact that a well-formed artifact file at p deserializes to
ArtifactAt(p) ==
    [Abi |-> <<"abi", p>>,
     Bytecode |-> <<"bin", p>>,
     DeployedBin |-> DeployedBinOf(p),
     SourceMap |-> SourceMapOf(p),
     StorageLayout |-> <<"layout", p>>]

\* json.Unmarshal of a file of the given content at p into a foundry.Artifact
Deserialize(content, p) ==
    IF content = "unencodable"
    THEN [ArtifactAt(p) EXCEPT !.StorageLayout = <<"unencodable", p>>]
    ELSE ArtifactAt(p)

NoArtifact ==
    [Abi |-> <<>>, Bytecode |-> <<>>, DeployedBin |-> "", SourceMap |-> "",
     StorageLayout |-> <<>>]

\* the comma-separated source-maps list of a run
ListEmpty == <<>>
ListAB == <<"A", ",", "B">>
SourceMapsLists == {ListEmpty, ListAB}

GoPackageName == "bindings"

(* ------------------------------- errors -------------------------------- *)
\* an error value: its kind and the identifying context its message carries
Err(kind, name, path, n) == [kind |-> kind, name |-> name, path |-> path, n |-> n]
NoErr == Err("nil", <<>>, <<>>, 0)
NotReturned == Err("running", <<>>, <<>>, 0)

(* --------------------------- the artifact walk ------------------------- *)
RECURSIVE SeqLess(_, _, _)
\* byte-wise string order, from position k on
SeqLess(a, b, k) ==
    IF k > Len(b) THEN FALSE
    ELSE IF k > Len(a) THEN TRUE
    ELSE IF a[k] = b[k] THEN SeqLess(a, b, k + 1)
    ELSE CharOrd(a[k]) < CharOrd(b[k])

RECURSIVE SegsLess(_, _, _)
SegsLess(a, b, k) ==
    IF k > Len(b) THEN FALSE
    ELSE IF k > Len(a) THEN TRUE
    ELSE IF a[k] = b[k] THEN SegsLess(a, b, k + 1)
    ELSE SeqLess(a[k], b[k], 1)

\* filepath.Walk visits the entries of each directory in lexical order
WalkBefore(p, q) == SegsLess(Split(p, "/"), Split(q, "/"), 1)

RECURSIVE SortedWalk(_)
SortedWalk(S) ==
    IF S = {} THEN <<>>
    ELSE LET first == CHOOSE p \in S : \A q \in S \ {p} : WalkBefore(p, q)
         IN <<first>> \o SortedWalk(S \ {first})

\* the files filepath.Walk passes to the callback, in walk order
WalkOrder(files) == SortedWalk({p \in FileUniverse : files[p] # "absent"})

\* the callback of filepath.Walk: one visited path against the index so far
VisitPath(index, p) ==
    IF HasSuffix(p, JsonExt)
    THEN LET sanitized == SanitizedName(p)
         IN IF sanitized \notin DOMAIN index
            THEN [n \in DOMAIN index \cup {sanitized} |->
                     IF n = sanitized THEN p ELSE index[n]]
            ELSE index
    ELSE index

RECURSIVE WalkFrom(_, _, _)
WalkFrom(walk, k, index) ==
    IF k > Len(walk) THEN index
    ELSE WalkFrom(walk, k + 1, VisitPath(index, walk[k]))

EmptyIndex == [n \in {} |-> NoPath]

getContractArtifactPaths(walk) == WalkFrom(walk, 1, EmptyIndex)

\* a Go map read: the zero value "" for a missing key
Lookup(index, name) == IF name \in DOMAIN index THEN index[name] ELSE NoPath

\* os.ReadFile: "absent" for a path that does not exist (the empty path too)
ReadFile(files, p) == IF p \in DOMAIN files THEN files[p] ELSE "absent"

\* variant: the index entry is tried before the conventional path
readForgeArtifact_IndexFirst(files, contractName, contractArtifactPaths) ==
    LET standard == StandardPath(contractName)
        indexed == Lookup(contractArtifactPaths, contractName)
        used == IF ReadFile(files, indexed) # "absent" THEN indexed ELSE standard
    IN IF ReadFile(files, used) = "absent"
       THEN [err |-> Err("CannotFindForgeArtifact", contractName, NoPath, 0),
             path |-> used, artifact |-> NoArtifact]
       ELSE IF ReadFile(files, used) = "malformed"
       THEN [err |-> Err("FailedToParseForgeArtifact", contractName, NoPath, 0),
             path |-> used, artifact |-> NoArtifact]
       ELSE [err |-> NoErr, path |-> used,
             artifact |-> Deserialize(ReadFile(files, used), used)]

readForgeArtifact(files, contractName, contractArtifactPaths) ==
    LET standard == StandardPath(contractName)
        indexed == Lookup(contractArtifactPaths, contractName)
        used == IF ReadFile(files, standard) # "absent" THEN standard ELSE indexed
    IN IF ReadFile(files, used) = "absent"
       THEN [err |-> Err("CannotFindForgeArtifact", contractName, NoPath, 0),
             path |-> used, artifact |-> NoArtifact]
       ELSE IF ReadFile(files, used) = "malformed"
       THEN [err |-> Err("FailedToParseForgeArtifact", contractName, NoPath, 0),
             path |-> used, artifact |-> NoArtifact]
       ELSE [err |-> NoErr, path |-> used,
             artifact |-> Deserialize(ReadFile(files, used), used)]

\* the set built from strings.Split(sourceMapsListStr, ",")
SourceMapsSet(str) == {Split(str, ",")[k] : k \in 1..Len(Split(str, ","))}

canonicalizeStorageLayout(forgeArtifact, sourceMapsSet, contractName) ==
    IF forgeArtifact.StorageLayout[1] = "unencodable"
    THEN [sourceMap |-> "", storage |-> <<>>,
          err |-> Err("ErrorMarshalingCanonicalStorage", <<>>, NoPath, 0)]
    ELSE [sourceMap |-> IF contractName \in sourceMapsSet
                        THEN forgeArtifact.SourceMap ELSE "",
          storage |-> <<"canonical", forgeArtifact.StorageLayout>>,
          err |-> NoErr]

(* ---------------------------- output files ----------------------------- *)
MoreGo == <<"_", "m", "o", "r", "e", ".", "g", "o">>

\* strings.ToLower(contractName) + "_more.go" inside the output directory
MetaFilePath(contractName) == ToLower(contractName) \o MoreGo

OutFilePaths == {MetaFilePath(n) : n \in ContractNames \cup {NameL1Bridge}}

NoMeta ==
    [Name |-> <<>>, StorageLayout |-> <<>>, DeployedBin |-> "", Package |-> "",
     DeployedSourceMap |-> ""]

\* the text of localContractMetadataTemplate executed on a metadata value:
\* the declarations the generated file holds
RenderLocal(meta) ==
    [template |-> "local",
     package |-> meta.Package,
     name |-> meta.Name,
     storageLayoutJSON |-> meta.StorageLayout,
     deployedBin |-> meta.DeployedBin,
     sourceMapDecl |-> IF meta.DeployedSourceMap # ""
                       THEN <<meta.DeployedSourceMap>> ELSE <<>>]

AbsentFile == [state |-> "absent", text |-> <<>>]
StaleFile == [state |-> "stale", text |-> <<>>]
TruncatedFile == [state |-> "truncated", text |-> <<>>]
WrittenFile(text) == [state |-> "written", text |-> <<text>>]

\* variant: the file is opened for appending, not truncated
Overwrite_Append(old, text) == [state |-> "written", text |-> Append(old.text, text)]

\* variant: a file already written is left as it is
Overwrite_KeepWritten(old, text) == IF old.state = "written" THEN old ELSE WrittenFile(text)

\* os.OpenFile with O_CREATE|O_TRUNC on a file holding old, then the template
\* executed into it
Overwrite(old, text) == WrittenFile(text)

\* the text of etherscanContractMetadataTemplate executed on a metadata value
RenderEtherscan(meta) ==
    [template |-> "etherscan",
     package |-> meta.Package,
     name |-> meta.Name,
     storageLayoutJSON |-> <<>>,
     deployedBin |-> meta.DeployedBin,
     sourceMapDecl |-> <<>>]

(* --------------------------- remote responses -------------------------- *)
RateLimitResult == "Max rate limit reached"
AbiText == "[abi]"

\* a response body: not JSON at all, a {status, message, result} object, or a
\* {jsonrpc, id, result} object
NotJson == [kind |-> "notjson", message |-> "", result |-> ""]
Envelope(message, result) == [kind |-> "envelope", message |-> message, result |-> result]
Rpc(result) == [kind |-> "rpc", message |-> "", result |-> result]
\* a JSON object whose "result" is not a JSON string
Mistyped(message) == [kind |-> "mistyped", message |-> message, result |-> ""]

\* what http.Get and io.ReadAll may give for an ABI request; "transport" is
\* the failure of either
AbiOutcomes ==
    {[transport |-> TRUE, body |-> NotJson]}
    \cup {[transport |-> FALSE, body |-> b] :
            b \in {NotJson, Rpc("0x")}
                  \cup {Envelope(m, r) : m \in {"OK", "NOTOK"}, r \in {RateLimitResult, AbiText}}}

BytecodeOutcomes ==
    {[transport |-> TRUE, body |-> NotJson]}
    \cup {[transport |-> FALSE, body |-> b] :
            b \in {NotJson, Mistyped("NOTOK"), Rpc(""), Rpc("0x"), Rpc("0x6080"),
                   Envelope("NOTOK", RateLimitResult)}}

\* json.Unmarshal(body, &apiResponse) for etherscanApiResponse
UnmarshalApiResponse(body) ==
    [ok |-> body.kind \notin {"notjson", "mistyped"},
     Message |-> body.message, Result |-> body.result]

\* variant: an empty or "0x" result is refused
UnmarshalRpcResponse_RefuseEmpty(body) ==
    [ok |-> body.kind \notin {"notjson", "mistyped"} /\ body.result \notin {"", "0x"},
     Result |-> body.result]

\* json.Unmarshal(body, &rpcResponse) for etherscanRpcApiResponse
UnmarshalRpcResponse(body) ==
    [ok |-> body.kind \notin {"notjson", "mistyped"}, Result |-> body.result]

\* variant: any "NOTOK" response is taken for the rate limit
IsRateLimit_AnyNotOk(apiResponse) ==
    apiResponse.Message = "NOTOK"

\* the test that makes fetchEtherscanAbi sleep and try again
IsRateLimit(apiResponse) ==
    apiResponse.Message = "NOTOK" /\ apiResponse.Result = RateLimitResult

\* variant: a body that does not parse is tried again like a rate limit
Classify_RetryUnparsable(o) ==
    LET apiResponse == UnmarshalApiResponse(o.body)
    IN IF o.transport THEN "transport"
       ELSE IF ~apiResponse.ok THEN "ratelimit"
       ELSE IF IsRateLimit(apiResponse) THEN "ratelimit"
       ELSE IF apiResponse.Message # "OK" THEN "issue"
       ELSE "ok"

\* what one iteration of the loop of fetchEtherscanAbi makes of a request's outcome
Classify(o) ==
    LET apiResponse == UnmarshalApiResponse(o.body)
    IN IF o.transport THEN "transport"
       ELSE IF ~apiResponse.ok THEN "unmarshal"
       ELSE IF IsRateLimit(apiResponse) THEN "ratelimit"
       ELSE IF apiResponse.Message # "OK" THEN "issue"
       ELSE "ok"

\* variant: one attempt too many
MayAttempt_OneMore(n, maxRetries) == n <= maxRetries

\* variant: one attempt too few
MayAttempt_OneLess(n, maxRetries) == n + 1 < maxRetries

\* the loop condition of fetchEtherscanAbi
MayAttempt(n, maxRetries) == n < maxRetries

AbiUrl(contract) == <<"getabi", contract.DeployedAddress>>
BytecodeUrl(contract) == <<"eth_getCode", contract.DeployedAddress>>

(* ------------------------------ manifest ------------------------------- *)
EthContract(name, address) == [Name |-> name, DeployedAddress |-> address]
EthContracts ==
    {EthContract(NameA, "0xA"), EthContract(NameLowerA, "0xa"), EthContract(NameB, "0xB")}

RECURSIVE SeqsUpTo(_, _)
\* the sequences over S of length at most n
SeqsUpTo(S, n) ==
    IF n = 0 THEN {<<>>}
    ELSE LET shorter == SeqsUpTo(S, n - 1)
         IN shorter \cup {Append(q, x) : q \in {r \in shorter : Len(r) = n - 1}, x \in S}

\* contractsData as readJSONFile fills it; readable is FALSE when the file
\* cannot be read or parsed
Manifest(readable, local, etherscan) ==
    [readable |-> readable, Local |-> local, Etherscan |-> etherscan]

LocalManifests ==
    {Manifest(TRUE, l, <<EthContract(NameA, "0xA")>>) : l \in SeqsUpTo(ContractNames, MaxContracts)}
    \cup {Manifest(FALSE, <<>>, <<>>)}

EtherscanManifests ==
    {Manifest(TRUE, <<NameA>>, l) : l \in SeqsUpTo(EthContracts, MaxContracts)}
    \cup {Manifest(FALSE, <<>>, <<>>)}

\* the artifact directories a run may find
FileSystems ==
    {f \in [FileUniverse -> FileContents] :
        /\ f[FileNotes] = "artifact"
        /\ \A p \in FileUniverse \ {FileA} : f[p] # "unencodable"
        /\ f[FileAOther] # "malformed"
        /\ f[FileLowerA] # "malformed"
        /\ f[FileBIndexed] # "malformed"}

NoFiles == [p \in FileUniverse |-> "absent"]

(* ------------------------------- state --------------------------------- *)
VARIABLES
    mode,                  \* "local": genLocalBindings, "etherscan": genEtherscanBindings
    pc,                    \* position of the run
    manifest,              \* the contract list file
    files,                 \* the artifact directory
    sourceMapsListStr,     \* the comma-separated allow-list
    apiMaxRetries,         \* the retry count of the remote pipeline
    contracts,             \* the parsed contract list
    idx,                   \* position of the loop over contracts
    tempDir,               \* "none", "created", "failed" (creation error), "removed"
    mkTempCalls,           \* calls of mkTempArtifactsDir
    removeCalls,           \* calls of os.RemoveAll(tempArtifactsDir)
    removeLog,             \* what the deferred function logged
    contractArtifactPaths, \* the index built by getContractArtifactPaths
    sourceMapsSet,
    forgeArtifact,         \* the artifact of the contract in hand
    contractMetaData,      \* the metadata value of the contract in hand
    outFiles,              \* the metadata output directory
    steps,                 \* history: the per-contract steps taken, in order
    retries,               \* loop counter of fetchEtherscanAbi
    abiReplies,            \* history: what the current fetchEtherscanAbi call got for each request
    abi,                   \* contract.Abi
    bytecode,              \* contract.Bytecode
    bytecodeReplies,       \* history: what the fetchEtherscanBytecode call for the current contract got
    run,                   \* 1 in the first execution of the program, 2 in a second one
    firstRun,              \* history: how the first execution ended
    ret                    \* the value the run returned

vars ==
    <<mode, pc, manifest, files, sourceMapsListStr, apiMaxRetries, contracts, idx,
      tempDir, mkTempCalls, removeCalls, removeLog, contractArtifactPaths,
      sourceMapsSet, forgeArtifact, contractMetaData, outFiles, steps, retries,
      abiReplies, abi, bytecode, bytecodeReplies, run, firstRun, ret>>

\* what no step of an execution changes
inputs == <<mode, manifest, files, sourceMapsListStr, apiMaxRetries, run, firstRun>>
tempVars == <<tempDir, mkTempCalls, removeCalls, removeLog>>
localVars == <<contractArtifactPaths, sourceMapsSet, forgeArtifact, contractMetaData>>
fetchVars == <<retries, abiReplies, abi, bytecode, bytecodeReplies>>

Step(op, i) == [op |-> op, i |-> i]

\* the steps of kind op taken so far for the contract at position i
Count(op, i) == Cardinality({k \in 1..Len(steps) : steps[k] = Step(op, i)})

\* what a second execution keeps of the first: its effects and its outcomes
RunRecord(out, r) == [outFiles |-> out, ret |-> r]

InitCommon ==
    /\ run = 1
    /\ firstRun = RunRecord([f \in OutFilePaths |-> AbsentFile], NotReturned)
    /\ bytecodeReplies = <<>>
    /\ pc = "start"
    /\ contracts = <<>>
    /\ idx = 0
    /\ tempDir = "none"
    /\ mkTempCalls = 0
    /\ removeCalls = 0
    /\ removeLog = "none"
    /\ contractArtifactPaths = EmptyIndex
    /\ sourceMapsSet = {}
    /\ forgeArtifact = NoArtifact
    /\ contractMetaData = NoMeta
    /\ outFiles = [f \in OutFilePaths |->
                      IF f = MetaFilePath(NameA) THEN StaleFile ELSE AbsentFile]
    /\ steps = <<>>
    /\ retries = 0
    /\ abiReplies = <<>>
    /\ abi = ""
    /\ bytecode = ""
    /\ ret = NotReturned

InitLocal ==
    /\ mode = "local"
    /\ manifest \in LocalManifests
    /\ files \in FileSystems
    /\ sourceMapsListStr \in SourceMapsLists
    /\ apiMaxRetries = 0
    /\ InitCommon

(* ------------------------- genLocalBindings ---------------------------- *)
\* a return after the deferred removal was registered
ReturnDeferred(err) ==
    /\ ret' = err
    /\ pc' = "cleanup"

\* variant: an empty contract list is not refused
GenLocal_ReadList_NoEmptyCheck ==
    /\ mode = "local" /\ pc = "start"
    /\ IF ~manifest.readable
       THEN /\ ret' = Err("ErrorReadingContractList", <<>>, NoPath, 0)
            /\ pc' = "done"
            /\ UNCHANGED contracts
       ELSE /\ contracts' = manifest.Local
            /\ pc' = "mkTemp"
            /\ UNCHANGED ret
    /\ UNCHANGED <<inputs, idx, tempVars, localVars, outFiles, steps, fetchVars>>

\* readLocalContractList and the two checks of its result
GenLocal_ReadList ==
    /\ mode = "local" /\ pc = "start"
    /\ IF ~manifest.readable
       THEN /\ ret' = Err("ErrorReadingContractList", <<>>, NoPath, 0)
            /\ pc' = "done"
            /\ UNCHANGED contracts
       ELSE IF Len(manifest.Local) = 0
       THEN /\ ret' = Err("NoContractsParsable", <<>>, NoPath, 0)
            /\ pc' = "done"
            /\ UNCHANGED contracts
       ELSE /\ contracts' = manifest.Local
            /\ pc' = "mkTemp"
            /\ UNCHANGED ret
    /\ UNCHANGED <<inputs, idx, tempVars, localVars, outFiles, steps, fetchVars>>

\* tempArtifactsDir, err := mkTempArtifactsDir(); the error is not looked at
GenLocal_MkTemp ==
    /\ mode = "local" /\ pc = "mkTemp"
    /\ \E created \in BOOLEAN :
          tempDir' = IF created THEN "created" ELSE "failed"
    /\ mkTempCalls' = mkTempCalls + 1
    /\ pc' = "walk"
    /\ UNCHANGED <<inputs, contracts, idx, removeCalls, removeLog, localVars,
                   outFiles, steps, fetchVars, ret>>

\* getContractArtifactPaths, then the template and the source-maps set
GenLocal_GetPaths ==
    /\ mode = "local" /\ pc = "walk"
    /\ \E walkOk \in BOOLEAN :
          IF walkOk
          THEN /\ contractArtifactPaths' = getContractArtifactPaths(WalkOrder(files))
               /\ sourceMapsSet' = SourceMapsSet(sourceMapsListStr)
               /\ idx' = 1
               /\ pc' = "resolve"
               /\ UNCHANGED ret
          ELSE /\ ReturnDeferred(Err("WalkError", <<>>, NoPath, 0))
               /\ UNCHANGED <<contractArtifactPaths, sourceMapsSet, idx>>
    /\ UNCHANGED <<inputs, contracts, tempVars, forgeArtifact, contractMetaData,
                   outFiles, steps, fetchVars>>

\* variant: a contract whose artifact cannot be resolved is skipped
GenLocal_ReadForgeArtifact_SkipFailing ==
    /\ mode = "local" /\ pc = "resolve"
    /\ LET r == readForgeArtifact(files, contracts[idx], contractArtifactPaths)
       IN IF r.err # NoErr
          THEN /\ IF idx = Len(contracts)
                  THEN /\ ReturnDeferred(NoErr)
                       /\ UNCHANGED idx
                  ELSE /\ idx' = idx + 1
                       /\ UNCHANGED <<pc, ret>>
               /\ UNCHANGED <<forgeArtifact, steps>>
          ELSE /\ forgeArtifact' = r.artifact
               /\ steps' = Append(steps, Step("resolve", idx))
               /\ pc' = "stage"
               /\ UNCHANGED <<ret, idx>>
    /\ UNCHANGED <<inputs, contracts, tempVars, contractArtifactPaths,
                   sourceMapsSet, contractMetaData, outFiles, fetchVars>>

GenLocal_ReadForgeArtifact ==
    /\ mode = "local" /\ pc = "resolve"
    /\ LET r == readForgeArtifact(files, contracts[idx], contractArtifactPaths)
       IN IF r.err # NoErr
          THEN /\ ReturnDeferred(r.err)
               /\ UNCHANGED <<forgeArtifact, steps>>
          ELSE /\ forgeArtifact' = r.artifact
               /\ steps' = Append(steps, Step("resolve", idx))
               /\ pc' = "stage"
               /\ UNCHANGED ret
    /\ UNCHANGED <<inputs, contracts, idx, tempVars, contractArtifactPaths,
                   sourceMapsSet, contractMetaData, outFiles, fetchVars>>

\* writeContractArtifacts: the ABI and the bytecode staged in the temporary directory
GenLocal_WriteContractArtifacts ==
    /\ mode = "local" /\ pc = "stage"
    /\ \E ok \in BOOLEAN :
          IF ok
          THEN /\ steps' = Append(steps, Step("stage", idx))
               /\ pc' = "bind"
               /\ UNCHANGED ret
          ELSE /\ ReturnDeferred(Err("WriteContractArtifactsError", <<>>, NoPath, 0))
               /\ UNCHANGED steps
    /\ UNCHANGED <<inputs, contracts, idx, tempVars, localVars, outFiles, fetchVars>>

\* variant: the metadata file is opened before the binding generator runs
GenLocal_GenContractBindings_OpensFirst ==
    /\ mode = "local" /\ pc = "bind"
    /\ \E ok \in BOOLEAN :
          IF ok
          THEN /\ steps' = Append(steps, Step("bind", idx))
               /\ pc' = "canon"
               /\ UNCHANGED <<ret, outFiles>>
          ELSE /\ ReturnDeferred(Err("GenContractBindingsError", <<>>, NoPath, 0))
               /\ outFiles' = [outFiles EXCEPT ![MetaFilePath(contracts[idx])] = TruncatedFile]
               /\ UNCHANGED steps
    /\ UNCHANGED <<inputs, contracts, idx, tempVars, localVars, fetchVars>>

\* genContractBindings: the external binding generator
GenLocal_GenContractBindings ==
    /\ mode = "local" /\ pc = "bind"
    /\ \E ok \in BOOLEAN :
          IF ok
          THEN /\ steps' = Append(steps, Step("bind", idx))
               /\ pc' = "canon"
               /\ UNCHANGED ret
          ELSE /\ ReturnDeferred(Err("GenContractBindingsError", <<>>, NoPath, 0))
               /\ UNCHANGED steps
    /\ UNCHANGED <<inputs, contracts, idx, tempVars, localVars, outFiles, fetchVars>>

\* canonicalizeStorageLayout and the metadata value built from its results;
\* the error it returns is assigned and never tested
GenLocal_Canonicalize ==
    /\ mode = "local" /\ pc = "canon"
    /\ LET c == canonicalizeStorageLayout(forgeArtifact, sourceMapsSet, contracts[idx])
       IN /\ contractMetaData' =
                 [Name |-> contracts[idx],
                  StorageLayout |-> c.storage,
                  DeployedBin |-> forgeArtifact.DeployedBin,
                  Package |-> GoPackageName,
                  DeployedSourceMap |-> c.sourceMap]
          /\ steps' = Append(steps, Step(IF c.err = NoErr THEN "canon" ELSE "canonError", idx))
    /\ pc' = "emit"
    /\ UNCHANGED <<inputs, contracts, idx, tempVars, contractArtifactPaths,
                   sourceMapsSet, forgeArtifact, outFiles, fetchVars, ret>>

\* writeLocalContractMetadata, and the end of the loop body
GenLocal_WriteMetadata ==
    /\ mode = "local" /\ pc = "emit"
    /\ LET name == contracts[idx]
           path == MetaFilePath(name)
       IN \E outcome \in {"openError", "executeError", "written"} :
             IF outcome = "openError"
             THEN /\ ReturnDeferred(Err("ErrorOpeningMetadataFile", name, path, 0))
                  /\ UNCHANGED <<outFiles, steps, idx>>
             ELSE IF outcome = "executeError"
             THEN /\ outFiles' = [outFiles EXCEPT ![path] = TruncatedFile]
                  /\ steps' = Append(steps, Step("open", idx))
                  /\ ReturnDeferred(Err("ErrorWritingMetadata", name, path, 0))
                  /\ UNCHANGED idx
             ELSE /\ outFiles' = [outFiles EXCEPT ![path] = Overwrite(outFiles[path], RenderLocal(contractMetaData))]
                  /\ steps' = Append(steps, Step("open", idx)) \o <<Step("write", idx)>>
                  /\ IF idx = Len(contracts)
                     THEN /\ ReturnDeferred(NoErr)
                          /\ UNCHANGED idx
                     ELSE /\ idx' = idx + 1
                          /\ pc' = "resolve"
                          /\ UNCHANGED ret
    /\ UNCHANGED <<inputs, contracts, tempVars, localVars, fetchVars>>

\* the deferred function: os.RemoveAll(tempArtifactsDir) and one log line
GenLocal_Cleanup ==
    /\ mode = "local" /\ pc = "cleanup"
    /\ \E removed \in (IF tempDir = "created" THEN BOOLEAN ELSE {TRUE}) :
          /\ tempDir' = IF removed /\ tempDir = "created" THEN "removed" ELSE tempDir
          /\ removeLog' = IF removed THEN "Successfully removed temporary directory"
                          ELSE "Error removing temporary directory"
    /\ removeCalls' = removeCalls + 1
    /\ pc' = "done"
    /\ UNCHANGED <<inputs, contracts, idx, mkTempCalls, localVars, outFiles, steps,
                   fetchVars, ret>>

NextLocal ==
    \/ GenLocal_ReadList
    \/ GenLocal_MkTemp
    \/ GenLocal_GetPaths
    \/ GenLocal_ReadForgeArtifact
    \/ GenLocal_WriteContractArtifacts
    \/ GenLocal_GenContractBindings
    \/ GenLocal_Canonicalize
    \/ GenLocal_WriteMetadata
    \/ GenLocal_Cleanup

(* ------------------------ genEtherscanBindings ------------------------- *)
InitEtherscan ==
    /\ mode = "etherscan"
    /\ manifest \in EtherscanManifests
    /\ files = NoFiles
    /\ sourceMapsListStr = ListAB
    /\ apiMaxRetries \in -1..MaxRetriesBound
    /\ InitCommon

\* readEtherscanContractsList and the two checks of its result
GenEtherscan_ReadList ==
    /\ mode = "etherscan" /\ pc = "start"
    /\ IF ~manifest.readable
       THEN /\ ret' = Err("ErrorReadingContractList", <<>>, NoPath, 0)
            /\ pc' = "done"
            /\ UNCHANGED contracts
       ELSE IF Len(manifest.Etherscan) = 0
       THEN /\ ret' = Err("NoContractsParsable", <<>>, NoPath, 0)
            /\ pc' = "done"
            /\ UNCHANGED contracts
       ELSE /\ contracts' = manifest.Etherscan
            /\ pc' = "mkTemp"
            /\ UNCHANGED ret
    /\ UNCHANGED <<inputs, idx, tempVars, localVars, outFiles, steps, fetchVars>>

\* tempArtifactsDir, err := mkTempArtifactsDir(); the error is not looked at.
\* Then the template and the source-maps set.
GenEtherscan_MkTemp ==
    /\ mode = "etherscan" /\ pc = "mkTemp"
    /\ \E created \in BOOLEAN :
          tempDir' = IF created THEN "created" ELSE "failed"
    /\ mkTempCalls' = mkTempCalls + 1
    /\ sourceMapsSet' = SourceMapsSet(sourceMapsListStr)
    /\ idx' = 1
    /\ pc' = "callFetchAbi"
    /\ UNCHANGED <<inputs, contracts, removeCalls, removeLog, contractArtifactPaths,
                   forgeArtifact, contractMetaData, outFiles, steps, fetchVars, ret>>

\* the call of fetchEtherscanAbi for the contract in hand: retries := 0
fetchEtherscanAbi_Call ==
    /\ mode = "etherscan" /\ pc = "callFetchAbi"
    /\ retries' = 0
    /\ abiReplies' = <<>>
    /\ abi' = ""
    /\ bytecode' = ""
    /\ bytecodeReplies' = <<>>
    /\ pc' = "fetchAbi"
    /\ UNCHANGED <<inputs, contracts, idx, tempVars, localVars, outFiles, steps, ret>>

\* one iteration of the loop of fetchEtherscanAbi
fetchEtherscanAbi_Attempt ==
    /\ mode = "etherscan" /\ pc = "fetchAbi"
    /\ MayAttempt(retries, apiMaxRetries)
    /\ \E o \in AbiOutcomes :
          LET class == Classify(o)
              request == Step("abiRequest", idx)
          IN /\ abiReplies' = Append(abiReplies, o)
             /\ IF class = "transport"
                THEN /\ ReturnDeferred(Err("TransportError", <<>>, NoPath, 0))
                     /\ steps' = Append(steps, request)
                     /\ UNCHANGED <<retries, abi>>
                ELSE IF class = "unmarshal"
                THEN /\ ReturnDeferred(Err("UnmarshalError", <<>>, NoPath, 0))
                     /\ steps' = Append(steps, request)
                     /\ UNCHANGED <<retries, abi>>
                ELSE IF class = "ratelimit"
                THEN /\ steps' = steps \o <<request, Step("sleep", idx)>>
                     /\ retries' = retries + 1
                     /\ UNCHANGED <<pc, ret, abi>>
                ELSE IF class = "issue"
                THEN /\ ReturnDeferred(Err("EtherscanRequestIssue", <<>>, AbiUrl(contracts[idx]), 0))
                     /\ steps' = Append(steps, request)
                     /\ UNCHANGED <<retries, abi>>
                ELSE /\ abi' = UnmarshalApiResponse(o.body).Result
                     /\ steps' = Append(steps, request)
                     /\ pc' = "fetchBytecode"
                     /\ UNCHANGED <<retries, ret>>
    /\ UNCHANGED <<inputs, contracts, idx, tempVars, localVars, outFiles, bytecode,
                   bytecodeReplies>>

\* the loop of fetchEtherscanAbi ends: every attempt was used up
fetchEtherscanAbi_Exhausted ==
    /\ mode = "etherscan" /\ pc = "fetchAbi"
    /\ ~MayAttempt(retries, apiMaxRetries)
    /\ ReturnDeferred(Err("FailedToFetchABIAfterRetries", <<>>, NoPath, apiMaxRetries))
    /\ UNCHANGED <<inputs, contracts, idx, tempVars, localVars, outFiles, steps, fetchVars>>

\* fetchEtherscanBytecode: one request
GenEtherscan_FetchBytecode ==
    /\ mode = "etherscan" /\ pc = "fetchBytecode"
    /\ steps' = Append(steps, Step("bytecodeRequest", idx))
    /\ \E o \in BytecodeOutcomes :
          LET rpcResponse == UnmarshalRpcResponse(o.body)
          IN /\ bytecodeReplies' = Append(bytecodeReplies, o)
             /\ IF o.transport
                THEN /\ ReturnDeferred(Err("TransportError", <<>>, NoPath, 0))
                     /\ UNCHANGED bytecode
                ELSE IF ~rpcResponse.ok
                THEN /\ ReturnDeferred(Err("UnmarshalError", <<>>, NoPath, 0))
                     /\ UNCHANGED bytecode
                ELSE /\ bytecode' = rpcResponse.Result
                     /\ pc' = "stage"
                     /\ UNCHANGED ret
    /\ UNCHANGED <<inputs, contracts, idx, tempVars, localVars, outFiles, retries,
                   abiReplies, abi>>

GenEtherscan_WriteContractArtifacts ==
    /\ mode = "etherscan" /\ pc = "stage"
    /\ \E ok \in BOOLEAN :
          IF ok
          THEN /\ steps' = Append(steps, Step("stage", idx))
               /\ pc' = "bind"
               /\ UNCHANGED ret
          ELSE /\ ReturnDeferred(Err("WriteContractArtifactsError", <<>>, NoPath, 0))
               /\ UNCHANGED steps
    /\ UNCHANGED <<inputs, contracts, idx, tempVars, localVars, outFiles, fetchVars>>

\* genContractBindings, then the metadata value
GenEtherscan_GenContractBindings ==
    /\ mode = "etherscan" /\ pc = "bind"
    /\ \E ok \in BOOLEAN :
          IF ok
          THEN /\ steps' = Append(steps, Step("bind", idx))
               /\ contractMetaData' =
                      [Name |-> contracts[idx].Name,
                       StorageLayout |-> <<>>,
                       DeployedBin |-> bytecode,
                       Package |-> GoPackageName,
                       DeployedSourceMap |-> ""]
               /\ pc' = "emit"
               /\ UNCHANGED ret
          ELSE /\ ReturnDeferred(Err("GenContractBindingsError", <<>>, NoPath, 0))
               /\ UNCHANGED <<steps, contractMetaData>>
    /\ UNCHANGED <<inputs, contracts, idx, tempVars, contractArtifactPaths,
                   sourceMapsSet, forgeArtifact, outFiles, fetchVars>>

\* writeEtherscanContractMetadata, and the end of the loop body
GenEtherscan_WriteMetadata ==
    /\ mode = "etherscan" /\ pc = "emit"
    /\ LET name == contracts[idx].Name
           path == MetaFilePath(name)
       IN \E outcome \in {"openError", "executeError", "written"} :
             IF outcome = "openError"
             THEN /\ ReturnDeferred(Err("ErrorOpeningMetadataFile", name, path, 0))
                  /\ UNCHANGED <<outFiles, steps, idx>>
             ELSE IF outcome = "executeError"
             THEN /\ outFiles' = [outFiles EXCEPT ![path] = TruncatedFile]
                  /\ steps' = Append(steps, Step("open", idx))
                  /\ ReturnDeferred(Err("ErrorWritingMetadata", name, path, 0))
                  /\ UNCHANGED idx
             ELSE /\ outFiles' = [outFiles EXCEPT ![path] = Overwrite(outFiles[path], RenderEtherscan(contractMetaData))]
                  /\ steps' = Append(steps, Step("open", idx)) \o <<Step("write", idx)>>
                  /\ IF idx = Len(contracts)
                     THEN /\ ReturnDeferred(NoErr)
                          /\ UNCHANGED idx
                     ELSE /\ idx' = idx + 1
                          /\ pc' = "callFetchAbi"
                          /\ UNCHANGED ret
    /\ UNCHANGED <<inputs, contracts, tempVars, localVars, fetchVars>>

\* the deferred function: os.RemoveAll(tempArtifactsDir) and one log line
GenEtherscan_Cleanup ==
    /\ mode = "etherscan" /\ pc = "cleanup"
    /\ \E removed \in (IF tempDir = "created" THEN BOOLEAN ELSE {TRUE}) :
          /\ tempDir' = IF removed /\ tempDir = "created" THEN "removed" ELSE tempDir
          /\ removeLog' = IF removed THEN "Successfully removed temporary directory"
                          ELSE "Error removing temporary directory"
    /\ removeCalls' = removeCalls + 1
    /\ pc' = "done"
    /\ UNCHANGED <<inputs, contracts, idx, mkTempCalls, localVars, outFiles, steps,
                   fetchVars, ret>>

NextEtherscan ==
    \/ GenEtherscan_ReadList
    \/ GenEtherscan_MkTemp
    \/ fetchEtherscanAbi_Call
    \/ fetchEtherscanAbi_Attempt
    \/ fetchEtherscanAbi_Exhausted
    \/ GenEtherscan_FetchBytecode
    \/ GenEtherscan_WriteContractArtifacts
    \/ GenEtherscan_GenContractBindings
    \/ GenEtherscan_WriteMetadata
    \/ GenEtherscan_Cleanup

Init == InitLocal \/ InitEtherscan
Next == NextLocal \/ NextEtherscan
Spec == Init /\ [][Next]_vars

(* --------------------------- a second execution ------------------------ *)
RerunMaxContracts == 2

RerunEthContracts == {EthContract(NameL1Bridge, "0xL1"), EthContract(NameLowerA, "0xa")}

\* artifact directories in which every contract name resolves
RerunFileSystems ==
    {f \in FileSystems :
        /\ f[FileA] \in {"artifact", "unencodable"}
        /\ f[FileLowerA] = "artifact"
        /\ f[FileAVersioned] = "absent"
        /\ f[FileAOther] = "absent"
        /\ f[FileBIndexed] = "absent"}

InitRerun ==
    /\ \/ /\ mode = "local"
          /\ manifest \in {Manifest(TRUE, l, <<>>) :
                              l \in SeqsUpTo({NameA, NameLowerA}, RerunMaxContracts)}
          /\ files \in RerunFileSystems
          /\ sourceMapsListStr = ListAB
          /\ apiMaxRetries = 0
       \/ /\ mode = "etherscan"
          /\ manifest \in {Manifest(TRUE, <<>>, l) :
                              l \in SeqsUpTo(RerunEthContracts, RerunMaxContracts)}
          /\ files = NoFiles
          /\ sourceMapsListStr = ListAB
          /\ apiMaxRetries = 1
    /\ InitCommon

\* the program is executed again with the same arguments on the output
\* directory the first execution left
Rerun ==
    /\ pc = "done" /\ run = 1
    /\ run' = 2
    /\ firstRun' = RunRecord(outFiles, ret)
    /\ pc' = "start"
    /\ contracts' = <<>>
    /\ idx' = 0
    /\ tempDir' = "none"
    /\ mkTempCalls' = 0
    /\ removeCalls' = 0
    /\ removeLog' = "none"
    /\ contractArtifactPaths' = EmptyIndex
    /\ sourceMapsSet' = {}
    /\ forgeArtifact' = NoArtifact
    /\ contractMetaData' = NoMeta
    /\ steps' = <<>>
    /\ retries' = 0
    /\ abiReplies' = <<>>
    /\ abi' = ""
    /\ bytecode' = ""
    /\ bytecodeReplies' = <<>>
    /\ ret' = NotReturned
    /\ UNCHANGED <<mode, manifest, files, sourceMapsListStr, apiMaxRetries, outFiles>>

NextRerun == Next \/ Rerun
SpecRerun == InitRerun /\ [][NextRerun]_vars

(* ======================= properties of the ABI fetch ==================== *)
\* the steps of kinds ops taken for the contract at position i, in order
StepsOf(ops, i) ==
    LET Wanted(e) == e.i = i /\ e.op \in ops
    IN SelectSeq(steps, Wanted)

RateLimitReply == [transport |-> FALSE, body |-> Envelope("NOTOK", "Max rate limit reached")]

\* the current fetchEtherscanAbi call has returned to genEtherscanBindings without error
FetchAbiSucceeded == pc = "fetchBytecode" \/ Count("bytecodeRequest", idx) > 0

\* the current fetchEtherscanAbi call has returned an error
FetchAbiFailed == pc \in {"cleanup", "done"} /\ Count("bytecodeRequest", idx) = 0

InFetch == mode = "etherscan" /\ idx >= 1 /\ pc # "callFetchAbi"

\* C1 (retry bound): when a fetchEtherscanAbi call has ended and every reply
\* it got, at least one, was the rate-limit envelope, it made exactly
\* maxRetries requests, a sleep separates every two consecutive requests, and
\* it failed with the "after N retries" error with N = maxRetries.
C1_RetryBound ==
    (/\ InFetch
     /\ pc # "fetchAbi"
     /\ abiReplies # <<>>
     /\ \A k \in 1..Len(abiReplies) : abiReplies[k] = RateLimitReply)
    => LET events == StepsOf({"abiRequest", "sleep"}, idx)
       IN /\ Count("abiRequest", idx) = apiMaxRetries
          /\ \A k \in 1..(Len(events) - 1) :
                /\ events[k].op = "abiRequest" => events[k + 1].op = "sleep"
                /\ events[k].op = "sleep" => events[k + 1].op = "abiRequest"
          /\ events[1].op = "abiRequest"
          /\ FetchAbiFailed
          /\ ret = Err("FailedToFetchABIAfterRetries", <<>>, NoPath, apiMaxRetries)

C1_Witness ==
    /\ InFetch
    /\ apiMaxRetries = 2
    /\ abiReplies = <<RateLimitReply, RateLimitReply>>
    /\ ret.kind = "FailedToFetchABIAfterRetries"
    /\ Count("sleep", idx) = 2

\* C2 (retry recovery): for every k < maxRetries, after k rate-limit replies
\* the fetch has not given up, and when reply k+1 is an envelope with message
\* "OK" the fetch has returned that envelope's result as the ABI, without an
\* error, after exactly k+1 requests.
C2_RetryRecovery ==
    InFetch =>
       LET n == Len(abiReplies)
       IN /\ (/\ \A k \in 1..n : abiReplies[k] = RateLimitReply
              /\ n < apiMaxRetries)
             => pc = "fetchAbi" /\ ret = NotReturned
          /\ (/\ n >= 1
              /\ n - 1 < apiMaxRetries
              /\ \A k \in 1..(n - 1) : abiReplies[k] = RateLimitReply
              /\ ~abiReplies[n].transport
              /\ abiReplies[n].body.kind = "envelope"
              /\ abiReplies[n].body.message = "OK")
             => /\ FetchAbiSucceeded
                /\ abi = abiReplies[n].body.result
                /\ Count("abiRequest", idx) = n
                /\ ret.kind \notin {"FailedToFetchABIAfterRetries", "EtherscanRequestIssue"}

C2_Witness ==
    /\ InFetch
    /\ apiMaxRetries = 2
    /\ Len(abiReplies) = 2
    /\ abiReplies[1] = RateLimitReply
    /\ abiReplies[2].body = Envelope("OK", AbiText)
    /\ abi = AbiText
    /\ pc = "fetchBytecode"

\* C7 (no retry of non-transient failures): when the last reply of a
\* fetchEtherscanAbi call is a transport failure or a body that is not the
\* status envelope's JSON, the run has returned that error, the failing
\* request is the last step taken (no sleep, no further request), whatever
\* number of attempts was left.
C7_NonTransientNotRetried ==
    (/\ InFetch
     /\ abiReplies # <<>>
     /\ LET last == abiReplies[Len(abiReplies)]
        IN last.transport \/ last.body.kind = "notjson")
    => /\ FetchAbiFailed
       /\ ret.kind = (IF abiReplies[Len(abiReplies)].transport
                      THEN "TransportError" ELSE "UnmarshalError")
       /\ steps[Len(steps)] = Step("abiRequest", idx)
       /\ Count("abiRequest", idx) = Len(abiReplies)
       /\ Count("sleep", idx) = Len(abiReplies) - 1
       /\ abi = ""

C7_Witness ==
    /\ InFetch
    /\ apiMaxRetries = 2
    /\ Len(abiReplies) = 1
    /\ ~abiReplies[1].transport
    /\ abiReplies[1].body.kind = "notjson"
    /\ ret.kind = "UnmarshalError"
    /\ pc = "done"

\* C8 (status classification): every reply before the last one of a
\* fetchEtherscanAbi call is the exact pair "NOTOK" / "Max rate limit reached";
\* a parsed last reply with another message than "OK" that is not that pair
\* has ended the fetch with an error and is the last step taken; a parsed last
\* reply with message "OK" has ended it successfully, its result being the ABI.
C8_StatusClassification ==
    (InFetch /\ abiReplies # <<>>) =>
       LET n == Len(abiReplies)
           last == abiReplies[n]
           parsed == ~last.transport /\ last.body.kind # "notjson"
           exactPair == last.body.message = "NOTOK" /\ last.body.result = "Max rate limit reached"
       IN /\ \A k \in 1..(n - 1) : abiReplies[k] = RateLimitReply
          /\ (parsed /\ exactPair)
             => /\ Count("sleep", idx) = n
                /\ ret.kind \in {"running", "FailedToFetchABIAfterRetries"}
                /\ (n < apiMaxRetries => pc = "fetchAbi")
          /\ (parsed /\ ~exactPair /\ last.body.message # "OK")
             => /\ FetchAbiFailed
                /\ ret.kind = "EtherscanRequestIssue"
                /\ steps[Len(steps)] = Step("abiRequest", idx)
                /\ Count("abiRequest", idx) = n
          /\ (parsed /\ last.body.message = "OK")
             => /\ FetchAbiSucceeded
                /\ abi = last.body.result
                /\ Count("abiRequest", idx) = n

C8_Witness ==
    /\ InFetch
    /\ apiMaxRetries = 2
    /\ Len(abiReplies) = 1
    /\ abiReplies[1].body = Envelope("NOTOK", AbiText)
    /\ ret.kind = "EtherscanRequestIssue"
    /\ Count("abiRequest", idx) = 1

(* ===================== properties of the local pipeline ================= *)
Max(S) == CHOOSE m \in S : \A k \in S : k <= m

\* the positions of the walk at which a *.json file with this sanitized name is visited
VisitsOf(walk, name) ==
    {k \in 1..Len(walk) : HasSuffix(walk[k], JsonExt) /\ SanitizedName(walk[k]) = name}

\* C3 (collision tie-break): once the index is built, it maps every sanitized
\* name to the path of the *.json file with that name that the walk visited last.
C3_LastVisitedWins ==
    (mode = "local" /\ idx >= 1) =>
       LET walk == WalkOrder(files)
       IN \A name \in DOMAIN contractArtifactPaths :
             contractArtifactPaths[name] = walk[Max(VisitsOf(walk, name))]

AllSteps == {"resolve", "stage", "bind", "canon", "canonError", "open", "write"}

\* C4 (fail-fast): in a run over three local contracts that has reached the
\* second one, whose artifact is neither at the conventional path nor at the
\* path the index holds for it, no step of the third contract is ever taken,
\* no metadata file of the third is opened, and the run ends with the
\* not-found error that names the second contract.
C4_FailFast ==
    (/\ mode = "local"
     /\ Len(contracts) = 3
     /\ idx >= 2
     /\ ReadFile(files, StandardPath(contracts[2])) = "absent"
     /\ ReadFile(files, Lookup(contractArtifactPaths, contracts[2])) = "absent")
    => /\ idx = 2
       /\ StepsOf(AllSteps, 2) = <<>>
       /\ StepsOf(AllSteps, 3) = <<>>
       /\ \/ pc = "resolve" /\ ret = NotReturned
          \/ /\ pc \in {"cleanup", "done"}
             /\ ret = Err("CannotFindForgeArtifact", contracts[2], NoPath, 0)

C4_Witness ==
    /\ mode = "local"
    /\ contracts = <<NameA, NameB, NameLowerA>>
    /\ files[FileLowerA] = "artifact"
    /\ idx = 2
    /\ pc = "done"
    /\ Count("write", 1) = 1
    /\ ret = Err("CannotFindForgeArtifact", NameB, NoPath, 0)
    /\ outFiles[MetaFilePath(NameB)] = AbsentFile

\* C5 (any per-contract error aborts the run): when a step of local contract i
\* returned an error, the run returns an error, no metadata file is opened
\* for contract i (unless the failing step is the emission, after the open)
\* and no step is taken for a later contract.
C5_AnyStepErrorAborts ==
    mode = "local" =>
       /\ \A i \in 1..Len(contracts) :
             Count("canonError", i) > 0
             => /\ Count("open", i) = 0
                /\ idx = i
                /\ pc \in {"cleanup", "done"}
                /\ ret \notin {NoErr, NotReturned}
       /\ (pc \in {"cleanup", "done"} /\ ret # NoErr /\ idx >= 1)
          => /\ \A j \in (idx + 1)..Len(contracts) : StepsOf(AllSteps, j) = <<>>
             /\ ret.kind # "ErrorWritingMetadata" => Count("open", idx) = 0

\* C6 (source-map gating): right after the metadata file of a local contract
\* is written, its source-map declaration holds the artifact's deployed source
\* map when the contract's name is in the allow-list (no declaration for an
\* empty map), and it has no declaration when the name is not in the list.
C6_SourceMapGating ==
    (mode = "local" /\ steps # <<>> /\ steps[Len(steps)].op = "write") =>
       LET i == steps[Len(steps)].i
           name == contracts[i]
           text == outFiles[MetaFilePath(name)].text[1]
       IN /\ contractMetaData.Name = name
          /\ name \in SourceMapsSet(sourceMapsListStr)
             => /\ contractMetaData.DeployedSourceMap = forgeArtifact.SourceMap
                /\ text.sourceMapDecl = IF forgeArtifact.SourceMap = "" THEN <<>>
                                        ELSE <<forgeArtifact.SourceMap>>
          /\ name \notin SourceMapsSet(sourceMapsListStr)
             => /\ contractMetaData.DeployedSourceMap = ""
                /\ text.sourceMapDecl = <<>>

(* ======================= properties of both pipelines =================== *)
InitialOutFiles ==
    [f \in OutFilePaths |-> IF f = MetaFilePath(NameA) THEN StaleFile ELSE AbsentFile]

\* the contract list of the pipeline being run
ListOfRun == IF mode = "local" THEN manifest.Local ELSE manifest.Etherscan

\* C9 (empty or unreadable manifest): when the manifest cannot be read or
\* holds no contract for the pipeline being run, the run ends at its first
\* step with an error: no temporary directory, no per-contract step, no
\* request, no change of the output directory.
C9_BadManifestIsFatal ==
    (~manifest.readable \/ Len(ListOfRun) = 0) =>
       /\ pc \in {"start", "done"}
       /\ pc = "done" => ret.kind = (IF manifest.readable THEN "NoContractsParsable"
                                     ELSE "ErrorReadingContractList")
       /\ mkTempCalls = 0 /\ tempDir = "none" /\ removeCalls = 0
       /\ steps = <<>>
       /\ outFiles = InitialOutFiles

C9_Witness ==
    /\ mode = "local"
    /\ manifest.readable
    /\ manifest.Local = <<>>
    /\ manifest.Etherscan # <<>>
    /\ pc = "done"
    /\ ret.kind = "NoContractsParsable"

\* C10 (temporary directory lifecycle): in a run that passed the manifest
\* checks the temporary directory is created exactly once, before any
\* contract is processed; its removal is attempted exactly once, when the run
\* ends, and not before.
C10_TempDirLifecycle ==
    contracts # <<>> =>
       /\ pc # "mkTemp" => mkTempCalls = 1
       /\ (idx >= 1 /\ removeCalls = 0) => tempDir = "created"
       /\ removeCalls = (IF pc = "done" THEN 1 ELSE 0)

\* C11 (resolution order): once readForgeArtifact has run for the local
\* contract in hand, a well-formed artifact at the conventional path
\* <root>/<name>.sol/<name>.json is the artifact in use whatever the index
\* holds; with no file at that path the artifact at the index entry of the
\* name is in use; with no file there either (or no entry) the run has
\* returned the not-found error naming the contract, without any further
\* step for it.
C11_ResolutionOrder ==
    (mode = "local" /\ idx >= 1 /\ pc # "resolve") =>
       LET name == contracts[idx]
           standard == Join3(ArtifactsRoot, name \o SolExt, name \o JsonExt)
           entry == IF name \in DOMAIN contractArtifactPaths
                    THEN contractArtifactPaths[name] ELSE NoPath
           atStandard == IF standard \in DOMAIN files THEN files[standard] ELSE "absent"
           atEntry == IF entry \in DOMAIN files THEN files[entry] ELSE "absent"
       IN /\ atStandard = "artifact"
             => /\ Count("resolve", idx) = 1
                /\ forgeArtifact = ArtifactAt(standard)
          /\ (atStandard = "absent" /\ atEntry = "artifact")
             => /\ Count("resolve", idx) = 1
                /\ forgeArtifact = ArtifactAt(entry)
          /\ (atStandard = "absent" /\ atEntry = "absent")
             => /\ pc \in {"cleanup", "done"}
                /\ ret = Err("CannotFindForgeArtifact", name, NoPath, 0)
                /\ StepsOf(AllSteps, idx) = <<>>

\* the conventional path holds an artifact and the index names another file
C11_Witness ==
    /\ mode = "local"
    /\ idx = 1
    /\ contracts[1] = NameA
    /\ files[FileA] = "artifact"
    /\ NameA \in DOMAIN contractArtifactPaths
    /\ contractArtifactPaths[NameA] = FileAVersioned
    /\ files[FileAVersioned] = "artifact"
    /\ forgeArtifact = ArtifactAt(FileA)
    /\ pc = "stage"

\* C12 (sequential list-order processing): in every state of a run of either
\* pipeline the contracts whose metadata file has been written form a prefix
\* of the contract list, the steps are taken in list order, and the first
\* step of contract i+1 comes after the write of the metadata file of
\* contract i.
C12_SequentialInListOrder ==
    /\ \A i \in 1..Len(contracts) :
          Count("write", i) > 0 => \A j \in 1..(i - 1) : Count("write", j) = 1
    /\ \A k \in 1..Len(steps) :
          /\ steps[k].i \in 1..Len(contracts)
          /\ k > 1 => steps[k - 1].i <= steps[k].i
          /\ steps[k].i > 1
             => \E w \in 1..(k - 1) : steps[w] = Step("write", steps[k].i - 1)
    /\ steps # <<>> => \/ steps[Len(steps)].i = idx
                       \/ steps[Len(steps)] = Step("write", idx - 1)

C12_Witness ==
    /\ mode = "etherscan"
    /\ Len(contracts) = 3
    /\ Count("write", 1) = 1
    /\ Count("write", 2) = 1
    /\ Count("write", 3) = 0
    /\ Count("abiRequest", 3) = 1
    /\ idx = 3

\* C15 (retry exhaustion identifies the contract): when the run of the remote
\* pipeline ends because fetchEtherscanAbi used up its attempts, the error
\* returned carries the name, the address or the request URL of the contract.
C15_ExhaustionNamesContract ==
    (mode = "etherscan" /\ ret.kind = "FailedToFetchABIAfterRetries") =>
       \/ ret.name = contracts[idx].Name
       \/ ret.path = AbiUrl(contracts[idx])
       \/ ret.path = <<contracts[idx].DeployedAddress>>

\* C16 (malformed local artifact): when the artifact file found for the
\* contract in hand does not deserialize, the run has returned, without any
\* further step for the contract, an error that names the contract and the
\* path of the artifact.
C16_MalformedArtifactNamesPath ==
    (mode = "local" /\ idx >= 1 /\ pc # "resolve") =>
       LET name == contracts[idx]
           standard == StandardPath(name)
           found == IF ReadFile(files, standard) # "absent" THEN standard
                    ELSE Lookup(contractArtifactPaths, name)
       IN ReadFile(files, found) = "malformed"
          => /\ pc \in {"cleanup", "done"}
             /\ StepsOf(AllSteps, idx) = <<>>
             /\ ret.kind = "FailedToParseForgeArtifact"
             /\ ret.name = name
             /\ ret.path = found

\* C19 (no attempts allowed): with maxRetries <= 0 a run of the remote
\* pipeline over a non-empty list issues no request and no sleep, takes no
\* step beyond the ABI fetch of its first contract, and ends with the
\* "after N retries" error, N being maxRetries.
C19_NoAttemptsAllowed ==
    (mode = "etherscan" /\ apiMaxRetries <= 0) =>
       /\ steps = <<>>
       /\ abiReplies = <<>>
       /\ idx <= 1
       /\ pc \in {"start", "mkTemp", "callFetchAbi", "fetchAbi", "cleanup", "done"}
       /\ outFiles = InitialOutFiles
       /\ (contracts # <<>> /\ pc \in {"cleanup", "done"})
          => ret = Err("FailedToFetchABIAfterRetries", <<>>, NoPath, apiMaxRetries)

C19_Witness ==
    /\ mode = "etherscan"
    /\ apiMaxRetries = -1
    /\ Len(contracts) = 2
    /\ idx = 1
    /\ pc = "done"
    /\ ret.kind = "FailedToFetchABIAfterRetries"
    /\ ret.n = -1

\* the positions in steps of the steps of kind op for contract i
PositionsOf(op, i) == {k \in 1..Len(steps) : steps[k] = Step(op, i)}

\* C20 (step order of the remote pipeline): for every contract, no ABI request
\* is issued beyond the maxRetries-th, at most one bytecode request is issued,
\* the bytecode request comes after all ABI requests of the contract and after
\* the ABI fetch returned successfully, and requests are issued for a contract
\* only when every earlier contract was processed to the end without failure.
C20_RemoteStepOrder ==
    mode = "etherscan" =>
       /\ \A i \in 1..Len(contracts) :
             /\ Count("abiRequest", i) > 0 => Count("abiRequest", i) <= apiMaxRetries
             /\ Count("bytecodeRequest", i) <= 1
             /\ \A b \in PositionsOf("bytecodeRequest", i) :
                   /\ PositionsOf("abiRequest", i) # {}
                   /\ \A a \in PositionsOf("abiRequest", i) : a < b
             /\ (Count("abiRequest", i) > 0 \/ Count("bytecodeRequest", i) > 0)
                => \A j \in 1..(i - 1) : Count("write", j) = 1
       /\ (idx >= 1 /\ Count("bytecodeRequest", idx) > 0)
          => /\ abiReplies # <<>>
             /\ abiReplies[Len(abiReplies)].body = Envelope("OK", abi)
       /\ ret \notin {NotReturned, NoErr}
          => \A j \in (idx + 1)..Len(contracts) : StepsOf({"abiRequest", "sleep", "bytecodeRequest"}, j) = <<>>

C20_Witness ==
    /\ mode = "etherscan"
    /\ apiMaxRetries = 2
    /\ Len(contracts) = 2
    /\ Count("abiRequest", 1) = 2
    /\ Count("bytecodeRequest", 1) = 1
    /\ Count("write", 1) = 1
    /\ Count("bytecodeRequest", 2) = 1
    /\ ret.kind = "TransportError"

\* the contract the latest fetch was made for
Fetched == IF pc = "callFetchAbi" THEN idx - 1 ELSE idx

\* the reply to the bytecode request does not parse as a {jsonrpc, id, result}
\* object
BytecodeReplyUnusable ==
    LET o == bytecodeReplies[1]
    IN o.transport \/ o.body.kind \in {"notjson", "mistyped"}

NameAt(i) == IF mode = "local" THEN contracts[i] ELSE contracts[i].Name

\* the positions of the list whose contracts share the output file of position i
SharingFile(i) ==
    {j \in 1..Len(contracts) : ToLower(NameAt(j)) = ToLower(NameAt(i))}

\* C18 (lowercase-name collision): a metadata file just written holds the
\* metadata of the contract just processed and nothing else, whatever an
\* earlier contract of the same lowercase name left in it; and when the run
\* ends without error, every contract was processed once and each output file
\* holds only the metadata of the last contract of the list that maps to it.
C18_LaterContractOverwrites ==
    /\ \A i \in 1..Len(contracts) :
          (steps # <<>> /\ steps[Len(steps)] = Step("write", i))
          => LET f == outFiles[MetaFilePath(NameAt(i))]
             IN /\ f.state = "written"
                /\ Len(f.text) = 1
                /\ f.text[1].name = NameAt(i)
    /\ (pc \in {"cleanup", "done"} /\ ret = NoErr)
       => \A i \in 1..Len(contracts) :
             LET f == outFiles[MetaFilePath(NameAt(i))]
             IN /\ Count("write", i) = 1
                /\ f.state = "written"
                /\ Len(f.text) = 1
                /\ f.text[1].name = NameAt(Max(SharingFile(i)))

\* contracts "A" and "a" of one list were both written, the run ended without
\* error, and the file a_more.go holds the metadata of "a"
C18_Witness ==
    /\ pc = "done"
    /\ ret = NoErr
    /\ Len(contracts) = 2
    /\ NameAt(1) = NameA
    /\ NameAt(2) = NameLowerA
    /\ Count("write", 1) = 1
    /\ Count("write", 2) = 1
    /\ outFiles[MetaFilePath(NameA)].text[1].name = NameLowerA

(* ====================== properties of a second execution ================ *)
L1BridgeMoreGo ==
    <<"l", "1", "b", "r", "i", "d", "g", "e", "_", "m", "o", "r", "e", ".", "g", "o">>

\* the output files the contract list names
FilesOfList ==
    {MetaFilePath(IF mode = "local" THEN ListOfRun[i] ELSE ListOfRun[i].Name) :
        i \in 1..Len(ListOfRun)}

\* two files agree in everything but the deployed bytecode they hold
SameButBytecode(a, b) ==
    /\ a.state = b.state
    /\ Len(a.text) = Len(b.text)
    /\ \A k \in 1..Len(a.text) :
          [a.text[k] EXCEPT !.deployedBin = ""] = [b.text[k] EXCEPT !.deployedBin = ""]

\* C13 (idempotent output naming), over a first and a second execution on the
\* same arguments and output directory: the file written for a contract is the
\* one named by the lowercased contract name and "_more.go" ("L1Bridge" gives
\* l1bridge_more.go) and no file the list does not name is touched; a write
\* leaves in the file one rendering only, whatever the file held; a second
\* write of the same contract with the same bytecode leaves the file exactly
\* as the first execution left it; and when both executions end without
\* error, the second leaves the same set of files as the first, with the same
\* contents (for the remote pipeline: up to the bytecode the remote returned).
C13_IdempotentOutput ==
    /\ \A f \in OutFilePaths \ FilesOfList : outFiles[f] = InitialOutFiles[f]
    /\ \A i \in 1..Len(contracts) :
          (steps # <<>> /\ steps[Len(steps)] = Step("write", i))
          => LET f == outFiles[MetaFilePath(NameAt(i))]
                 f1 == firstRun.outFiles[MetaFilePath(NameAt(i))]
             IN /\ f.state = "written"
                /\ Len(f.text) = 1
                /\ f.text[1].name = NameAt(i)
                /\ NameAt(i) = NameL1Bridge => f = outFiles[L1BridgeMoreGo]
                /\ (/\ run = 2
                    /\ f1.state = "written"
                    /\ f1.text[1].name = NameAt(i)
                    /\ mode = "etherscan"
                       => (pc # "fetchAbi" /\ f1.text[1].deployedBin = bytecode))
                   => f = f1
    /\ (run = 2 /\ pc = "done" /\ ret = NoErr /\ firstRun.ret = NoErr)
       => /\ {f \in OutFilePaths : outFiles[f].state = "written"}
                = {f \in OutFilePaths : firstRun.outFiles[f].state = "written"}
          /\ \A f \in OutFilePaths : SameButBytecode(outFiles[f], firstRun.outFiles[f])
          /\ mode = "local" => outFiles = firstRun.outFiles

\* both executions of the remote pipeline on "L1Bridge" ended without error and
\* the second left l1bridge_more.go, already written by the first, as it was
C13_Witness ==
    /\ run = 2
    /\ pc = "done"
    /\ mode = "etherscan"
    /\ ret = NoErr
    /\ firstRun.ret = NoErr
    /\ Len(contracts) = 2
    /\ contracts[1].Name = NameL1Bridge
    /\ Count("write", 1) = 1
    /\ firstRun.outFiles[L1BridgeMoreGo].state = "written"
    /\ firstRun.outFiles[L1BridgeMoreGo].text[1].deployedBin = "0x6080"
    /\ outFiles = firstRun.outFiles

(* ===================== frame of the metadata output files ============== *)
\* the output files a step changes
Touched == {f \in OutFilePaths : outFiles'[f] # outFiles[f]}

\* the positions among the steps taken so far at which contract i was staged
\* and bound, in that order, with no metadata file opened for it yet
StagedAndBound(i) ==
    /\ Count("stage", i) = 1
    /\ Count("bind", i) = 1
    /\ \A a \in PositionsOf("stage", i) : \A b \in PositionsOf("bind", i) : a < b
    /\ Count("open", i) = 0

\* what C21 asks of one step
C21_Step ==
    /\ Touched # {}
       => /\ pc = "emit"
          /\ ret = NotReturned
          /\ idx \in 1..Len(contracts)
          /\ Touched = {MetaFilePath(NameAt(idx))}
          /\ StagedAndBound(idx)
    /\ (pc \in {"resolve", "callFetchAbi", "fetchAbi", "fetchBytecode", "stage", "bind"}
        /\ pc' = "cleanup")
       => outFiles' = outFiles

\* C21 (metadata written only after staging and binding): a step of either
\* pipeline changes (writes or truncates) an output file only when it is the
\* emission step of the contract in hand, it changes that contract's file
\* only, and by then the contract's ABI and bytecode were staged and the
\* binding generator returned success for it; a step that fails in
\* resolution, fetching, staging or binding generation leaves every output
\* file as it was.
C21_WriteOnlyAfterBinding == [][C21_Step]_vars

\* the binding generator failed for contract "A" after its artifacts were
\* staged, and the stale a_more.go that was there before the run is still there
C21_Witness ==
    /\ mode = "local"
    /\ pc = "done"
    /\ idx = 1
    /\ contracts[1] = NameA
    /\ Count("stage", 1) = 1
    /\ Count("bind", 1) = 0
    /\ ret.kind = "GenContractBindingsError"
    /\ outFiles[MetaFilePath(NameA)] = StaleFile

TypeOK == pc \in {"start", "mkTemp", "walk", "resolve", "stage", "bind", "canon", "emit", "cleanup", "done", "callFetchAbi", "fetchAbi", "fetchBytecode"}

====
